---- MODULE Spec2Model ----
(***************************************************************************)
(* Model of src/lib.rs of unitypack-rs: read_unity_asset_bundle and the    *)
(* parsers it is composed of.  A byte is an integer in 0..255, a slice     *)
(* (&[u8]) is the sequence of the bytes it covers, a String is the         *)
(* sequence of its UTF-8 bytes.  One action per stage of                   *)
(* read_unity_asset_bundle and per iteration of its two loops.             *)
(***************************************************************************)
EXTENDS Integers, Sequences, FiniteSets, TLC

VARIABLES
    buf,                    \* the caller's buffer, read_unity_asset_bundle(input)
    lz4_exact,              \* whether the linked lz4_flex rejects a short decode
    pc,                     \* position inside read_unity_asset_bundle
    input,                  \* the `input` slice: the unread suffix of buf
    header,                 \* unity_asset_bundle_header
    container_header,       \* unity_container_header
    compressed_blocks_info, \* the slice compressed_blocks_info_bytes, as [start, len] in buf
    block_info,             \* the decompressed blocks-info
    storage_blocks,         \* Vec<UnityStorageBlock>
    directory_info,         \* Vec<UnityNode>
    block_spans,            \* the compressed_bytes slice of every loop iteration, [start, len] in buf
    decompresseds,          \* local of decompress_by_storage_blocks
    dec,                    \* the flat payload (`dec`, then `decompressed`)
    sf_input,               \* local `input` of read_stream_files: unread suffix of dec
    stream_files,           \* Vec<UnityStreamFile>
    result                  \* how the call ended, and its value

vars == <<buf, lz4_exact, pc, input, header, container_header,
          compressed_blocks_info, block_info, storage_blocks, directory_info,
          block_spans, decompresseds, dec, sf_input, stream_files, result>>

----------------------------------------------------------------------------
(* Bounds of the explored inputs *)

MaxBlocks == 2
MaxNodes == 2

----------------------------------------------------------------------------
(* Program constants *)

HashLen == 16
InfoAtEndMask == 128
CompressionTypeMask == 63
UsizeHuge == 2147483647

None == [none |-> TRUE]

----------------------------------------------------------------------------
(* Integer and byte helpers *)

RECURSIVE BitAnd(_, _)
BitAnd(a, b) ==
    IF a = 0 \/ b = 0 THEN 0
    ELSE (a % 2) * (b % 2) + 2 * BitAnd(a \div 2, b \div 2)

Front(s) == SubSeq(s, 1, Len(s) - 1)

Drop(s, n) == SubSeq(s, n + 1, Len(s))

\* A value of 2^31 - 1 or more is held as UsizeHuge: the parsers use such a
\* value only as a length to compare with the length of a slice, which is
\* smaller.  The explored flags and version fields are below 2^31 - 1.
RECURSIVE BeNat(_)
BeNat(bytes) ==
    IF bytes = <<>> THEN 0
    ELSE LET hi == BeNat(Front(bytes))
             lo == bytes[Len(bytes)]
         IN  IF hi > (UsizeHuge - lo) \div 256 THEN UsizeHuge ELSE hi * 256 + lo

Complement(bytes) == [i \in 1..Len(bytes) |-> 255 - bytes[i]]

\* two's complement: a value with the top bit set is -(~value + 1)
BeInt(bytes) ==
    IF bytes[1] >= 128
    THEN LET m == BeNat(Complement(bytes)) IN
         IF m = UsizeHuge THEN 0 - UsizeHuge ELSE 0 - (m + 1)
    ELSE BeNat(bytes)

\* `x as usize` of a signed x on a 64-bit target: x + 2^64 when x < 0, which
\* exceeds every slice length.
AsUsize(x) == IF x >= 0 THEN x ELSE UsizeHuge

----------------------------------------------------------------------------
(* Results.  A parser ends in one of three ways: "Ok" (with the unread     *)
(* rest and the value), "Err" (the IResult error) or "panic" (unwrap of an *)
(* Err, todo!(), arithmetic or index out of range).                        *)

Ok(rest, val) == [res |-> "Ok", rest |-> rest, val |-> val]

Err == [res |-> "Err", cause |-> "nom"]

Panic(cause) == [res |-> "panic", cause |-> cause]

\* `r?`: go on with the value of an Ok, return anything else to the caller
Try(r, K(_)) == IF r.res = "Ok" THEN K(r) ELSE r

\* `r.unwrap()`
Unwrap(r, cause) == IF r.res = "Err" THEN Panic(cause) ELSE r

----------------------------------------------------------------------------
(* nom combinators *)

take(n, i) ==
    IF Len(i) < n THEN Err ELSE Ok(Drop(i, n), SubSeq(i, 1, n))

tag0(i) ==
    IF Len(i) >= 1 /\ i[1] = 0 THEN Ok(Drop(i, 1), <<0>>) ELSE Err

IsAlpha(b) == (b >= 65 /\ b <= 90) \/ (b >= 97 /\ b <= 122)

RECURSIVE AlphaRun(_)
AlphaRun(i) ==
    IF i # <<>> /\ IsAlpha(i[1]) THEN 1 + AlphaRun(Drop(i, 1)) ELSE 0

alpha1(i) ==
    IF AlphaRun(i) = 0 THEN Err
    ELSE Ok(Drop(i, AlphaRun(i)), SubSeq(i, 1, AlphaRun(i)))

\* the number of bytes before the first NUL, -1 without one
RECURSIVE FindNul(_, _)
FindNul(i, k) ==
    IF k > Len(i) THEN -1
    ELSE IF i[k] = 0 THEN k - 1
    ELSE FindNul(i, k + 1)

take_until0(i) ==
    IF FindNul(i, 1) < 0 THEN Err
    ELSE Ok(Drop(i, FindNul(i, 1)), SubSeq(i, 1, FindNul(i, 1)))

be_uint(w, i) ==
    IF Len(i) < w THEN Err ELSE Ok(Drop(i, w), BeNat(SubSeq(i, 1, w)))

be_sint(w, i) ==
    IF Len(i) < w THEN Err ELSE Ok(Drop(i, w), BeInt(SubSeq(i, 1, w)))

be_u16(i) == be_uint(2, i)

be_u32(i) == be_uint(4, i)

be_i32(i) == be_sint(4, i)

be_i64(i) == be_sint(8, i)

\* std::str::from_utf8(s).is_ok()
IsCont(b) == b >= 128 /\ b <= 191

RECURSIVE IsUtf8(_)
IsUtf8(s) ==
    IF s = <<>> THEN TRUE
    ELSE IF s[1] < 128 THEN IsUtf8(Drop(s, 1))
    ELSE IF s[1] >= 194 /\ s[1] <= 223
    THEN Len(s) >= 2 /\ IsCont(s[2]) /\ IsUtf8(Drop(s, 2))
    ELSE IF s[1] >= 224 /\ s[1] <= 239
    THEN /\ Len(s) >= 3
         /\ IsCont(s[2]) /\ IsCont(s[3])
         /\ (s[1] = 224 => s[2] >= 160)
         /\ (s[1] = 237 => s[2] <= 159)
         /\ IsUtf8(Drop(s, 3))
    ELSE IF s[1] >= 240 /\ s[1] <= 244
    THEN /\ Len(s) >= 4
         /\ IsCont(s[2]) /\ IsCont(s[3]) /\ IsCont(s[4])
         /\ (s[1] = 240 => s[2] >= 144)
         /\ (s[1] = 244 => s[2] <= 143)
         /\ IsUtf8(Drop(s, 4))
    ELSE FALSE

----------------------------------------------------------------------------
(* The parsers of the header, the descriptor and the blocks-info *)

read_unity_asset_bundle_header(i) ==
    Try(alpha1(i), LAMBDA r1 :
    Try(tag0(r1.rest), LAMBDA r2 :
    Try(be_u32(r2.rest), LAMBDA r3 :
    Try(take_until0(r3.rest), LAMBDA r4 :
    IF ~IsUtf8(r4.val) THEN Panic("unwrap_utf8") ELSE
    Try(tag0(r4.rest), LAMBDA r5 :
    Try(take_until0(r5.rest), LAMBDA r6 :
    IF ~IsUtf8(r6.val) THEN Panic("unwrap_utf8") ELSE
    Try(tag0(r6.rest), LAMBDA r7 :
    Ok(r7.rest, [signature |-> r1.val, version |-> r3.val,
                 unity_version |-> r4.val, unity_revision |-> r6.val]))))))))

read_unity_container_header(i) ==
    Try(be_i64(i), LAMBDA r1 :
    Try(be_u32(r1.rest), LAMBDA r2 :
    Try(be_u32(r2.rest), LAMBDA r3 :
    Try(be_u32(r3.rest), LAMBDA r4 :
    Ok(r4.rest, [size |-> r1.val, compressed_blocks_info_size |-> r2.val,
                 uncompressed_blocks_info_size |-> r3.val, flags |-> r4.val])))))

read_storage_block(i) ==
    Try(be_u32(i), LAMBDA r1 :
    Try(be_u32(r1.rest), LAMBDA r2 :
    Try(be_u16(r2.rest), LAMBDA r3 :
    Ok(r3.rest, [compressed_size |-> r2.val, uncompressed_size |-> r1.val,
                 flags |-> r3.val]))))

read_node(i) ==
    Try(be_i64(i), LAMBDA r1 :
    Try(be_i64(r1.rest), LAMBDA r2 :
    Try(be_u32(r2.rest), LAMBDA r3 :
    Try(take_until0(r3.rest), LAMBDA r4 :
    IF ~IsUtf8(r4.val) THEN Panic("unwrap_utf8") ELSE
    Try(tag0(r4.rest), LAMBDA r5 :
    Ok(r5.rest, [offset |-> r1.val, size |-> r2.val, flags |-> r3.val,
                 path |-> r4.val]))))))

\* nom::multi::count(read_storage_block, n): n applications, the first
\* failure fails it
RECURSIVE count_storage_blocks(_, _, _)
count_storage_blocks(n, i, acc) ==
    IF Len(acc) = n THEN Ok(i, acc)
    ELSE Try(read_storage_block(i), LAMBDA r :
         count_storage_blocks(n, r.rest, Append(acc, r.val)))

RECURSIVE count_nodes(_, _, _)
count_nodes(n, i, acc) ==
    IF Len(acc) = n THEN Ok(i, acc)
    ELSE Try(read_node(i), LAMBDA r :
         count_nodes(n, r.rest, Append(acc, r.val)))

read_block_infos(info) ==
    Try(take(HashLen, info), LAMBDA r1 :
    Try(be_i32(r1.rest), LAMBDA r2 :
    Try(count_storage_blocks(AsUsize(r2.val), r2.rest, <<>>), LAMBDA r3 :
    Try(be_i32(r3.rest), LAMBDA r4 :
    Try(count_nodes(AsUsize(r4.val), r4.rest, <<>>), LAMBDA r5 :
    Ok(r5.rest, [storage_blocks |-> r3.val, nodes |-> r5.val]))))))

----------------------------------------------------------------------------
(* lz4_flex::block::decompress(input, size): the LZ4 block format, decoded *)
(* into a buffer of `size` bytes.  Positions are 1-based; a result is      *)
(* [res |-> "Ok", val, pos] or Err.                                        *)

RECURSIVE Lz4ExtLen(_, _, _)
Lz4ExtLen(inp, p, acc) ==
    IF p > Len(inp) THEN Err
    ELSE IF inp[p] = 255 THEN Lz4ExtLen(inp, p + 1, acc + 255)
    ELSE [res |-> "Ok", val |-> acc + inp[p], pos |-> p + 1]

\* a length of 15 in the token goes on in the following bytes
Lz4Length(inp, p, nibble) ==
    IF nibble < 15 THEN [res |-> "Ok", val |-> nibble, pos |-> p]
    ELSE Lz4ExtLen(inp, p, 15)

\* the match: n bytes copied from `offset` bytes back, one at a time
RECURSIVE Lz4Copy(_, _, _)
Lz4Copy(out, offset, n) ==
    IF n = 0 THEN out
    ELSE Lz4Copy(Append(out, out[Len(out) - offset + 1]), offset, n - 1)

Lz4Offset(inp, p) == inp[p] + 256 * inp[p + 1]

RECURSIVE Lz4Sequences(_, _, _, _)
Lz4Match(inp, p, token, out, cap) ==
    IF p + 1 > Len(inp) THEN Err ELSE
    Try(Lz4Length(inp, p + 2, token % 16), LAMBDA m :
    IF Lz4Offset(inp, p) = 0 \/ Lz4Offset(inp, p) > Len(out) THEN Err ELSE
    IF Len(out) + m.val + 4 > cap THEN Err ELSE
    Lz4Sequences(inp, m.pos, Lz4Copy(out, Lz4Offset(inp, p), m.val + 4), cap))

Lz4Sequences(inp, p, out, cap) ==
    IF p > Len(inp) THEN Err ELSE
    Try(Lz4Length(inp, p + 1, inp[p] \div 16), LAMBDA l :
    IF l.pos + l.val - 1 > Len(inp) THEN Err ELSE
    IF Len(out) + l.val > cap THEN Err ELSE
    IF l.pos + l.val > Len(inp)
    THEN Ok(<<>>, out \o SubSeq(inp, l.pos, l.pos + l.val - 1))
    ELSE Lz4Match(inp, l.pos + l.val, inp[p],
                  out \o SubSeq(inp, l.pos, l.pos + l.val - 1), cap))

\* A decode shorter than `size` is an error in the releases that take
\* `uncompressed_size` and a shorter Vec in those that take
\* `min_uncompressed_size`: `exact` tells which one is linked.
lz4_decompress(inp, size, exact) ==
    Try(Lz4Sequences(inp, 1, <<>>, size), LAMBDA r :
    IF exact /\ Len(r.val) # size THEN Err ELSE r)

CodecSelector(flags) == BitAnd(flags, CompressionTypeMask)

decompress(compressed_bytes, uncompressed_size, flags, exact) ==
    IF CodecSelector(flags) = 1 THEN Panic("todo_lzma")
    ELSE IF CodecSelector(flags) \in {2, 3}
    THEN Unwrap(lz4_decompress(compressed_bytes, uncompressed_size, exact),
                "unwrap_lz4")
    ELSE Ok(<<>>, compressed_bytes)

----------------------------------------------------------------------------
(* read_blocks_info_and_directory *)

\* a decoder that reads bit 0x40 as the info-at-end flag
InfoAtEnd_Bit6(flags) == BitAnd(flags, 64) # 0

InfoAtEnd(flags) == BitAnd(flags, InfoAtEndMask) # 0

\* offset in buf of the first byte of a suffix i of buf
Pos(i) == Len(buf) - Len(i)

\* lines 140-147: the slice compressed_blocks_info_bytes (val, and span: where
\* it lies in buf) and the new `input` (rest)
locate_blocks_info(i, ch) ==
    IF InfoAtEnd(ch.flags)
    THEN IF Len(i) - ch.compressed_blocks_info_size < 0
         THEN Panic("slice_index")
         ELSE [res |-> "Ok", rest |-> i,
               val |-> Drop(i, Len(i) - ch.compressed_blocks_info_size),
               span |-> [start |-> Pos(i) + Len(i) - ch.compressed_blocks_info_size,
                         len |-> ch.compressed_blocks_info_size]]
    ELSE Try(take(ch.compressed_blocks_info_size, i), LAMBDA r :
         [res |-> "Ok", rest |-> r.rest, val |-> r.val,
          span |-> [start |-> Pos(i), len |-> ch.compressed_blocks_info_size]])

\* a result, with the locals that were assigned when it arose
Locals(l, r) == r @@ l

read_blocks_info_and_directory(i, h, ch, exact) ==
    IF h.version >= 7 THEN Panic("todo_version") ELSE
    Try(locate_blocks_info(i, ch), LAMBDA loc :
    Locals([span |-> loc.span],
    Try(decompress(loc.val, ch.uncompressed_blocks_info_size, ch.flags, exact),
        LAMBDA d :
    Locals([block_info |-> d.val],
    Try(Unwrap(read_block_infos(d.val), "unwrap_block_infos"), LAMBDA r :
    [res |-> "Ok", rest |-> loc.rest,
     storage_blocks |-> r.val.storage_blocks, nodes |-> r.val.nodes])))))

----------------------------------------------------------------------------
(* read_files: decompress_by_storage_blocks, then read_stream_files *)

\* lines 238-246: one iteration of the loop over storage_blocks
decompress_block(i, sb, exact) ==
    Try(take(sb.compressed_size, i), LAMBDA r :
    Try(decompress(r.val, sb.uncompressed_size, sb.flags, exact), LAMBDA d :
    [res |-> "Ok", rest |-> r.rest, val |-> d.val,
     span |-> [start |-> Pos(i), len |-> sb.compressed_size]]))

RECURSIVE Concat(_)
Concat(ss) == IF ss = <<>> THEN <<>> ELSE ss[1] \o Concat(Tail(ss))

\* a reader that skips di.offset bytes before it takes the body
take_node_body_seek(i, di) ==
    IF di.offset < 0 \/ di.offset > Len(i) THEN Err
    ELSE take(AsUsize(di.size), Drop(i, di.offset))

\* lines 262-271: one iteration of the loop over directory_info
take_node_body(i, di) == take(AsUsize(di.size), i)

read_stream_file(i, di) ==
    Try(take_node_body(i, di), LAMBDA r :
    Ok(r.rest, [path |-> di.path, file_name |-> di.path, body |-> r.val]))

----------------------------------------------------------------------------
(* The explored buffers: archives written field by field in the wire       *)
(* layout the parsers read, well-formed ones and damaged ones.             *)

U16(n) == <<n \div 256, n % 256>>

U32(n) == <<0, 0>> \o U16(n)

I32(n) == IF n >= 0 THEN U32(n) ELSE <<255, 255>> \o U16(65536 + n)

I64(n) == IF n >= 0 THEN <<0, 0, 0, 0>> \o U32(n) ELSE <<255, 255, 255, 255>> \o I32(n)

SeqsUpTo(S, n) == UNION {[1..k -> S] : k \in 0..n}

\* u, c, f: the record's uncompressedSize, compressedSize, codecFlags;
\* data: the bytes the archive holds for the block. Stored as is; LZ4 of two
\* literals; LZ4 of one literal and a match of four.
BlockKinds ==
    { [u |-> 2, c |-> 2, f |-> 0, data |-> <<11, 12>>],
      [u |-> 2, c |-> 3, f |-> 3, data |-> <<32, 31, 32>>],
      [u |-> 5, c |-> 5, f |-> 2, data |-> <<16, 41, 1, 0, 0>>] }

\* blocks whose record and bytes disagree: stored bytes shorter than
\* uncompressedSize; LZ4 that decodes to less than uncompressedSize;
\* compressedSize larger than the bytes held (unknown selector 4)
BadBlockKinds ==
    { [u |-> 3, c |-> 2, f |-> 64, data |-> <<21, 22>>],
      [u |-> 3, c |-> 3, f |-> 3,  data |-> <<32, 51, 52>>],
      [u |-> 2, c |-> 4, f |-> 4,  data |-> <<61, 62>>] }

LzmaBlock == [u |-> 1, c |-> 1, f |-> 1, data |-> <<71>>]

NodeKinds ==
    { [offset |-> 0, size |-> 1, flags |-> 4, path |-> <<97>>],
      [offset |-> 3, size |-> 2, flags |-> 4, path |-> <<98, 99>>],
      [offset |-> 1, size |-> 0, flags |-> 0, path |-> <<>>] }

NegativeSizeNode == [offset |-> 0, size |-> -1, flags |-> 4, path |-> <<100>>]

BadPathNode == [offset |-> 0, size |-> 1, flags |-> 4, path |-> <<255>>]

DescriptorFlags == {0, 128, 67, 195}

Signature == <<85, 110, 105, 116, 121, 70, 83>>

UnityVersion == <<53, 46, 120, 46, 120>>

UnityRevision == <<50, 48, 49, 57, 46, 52, 46, 49, 102, 49>>

DataHash == [i \in 1..HashLen |-> 200 + i]

EncStorageBlock(b) == U32(b.u) \o U32(b.c) \o U16(b.f)

EncNode(n) == I64(n.offset) \o I64(n.size) \o U32(n.flags) \o n.path \o <<0>>

BlocksInfoRaw(p) ==
    DataHash
        \o I32(p.nblocks) \o Concat([k \in 1..Len(p.blocks) |-> EncStorageBlock(p.blocks[k])])
        \o I32(p.nnodes) \o Concat([k \in 1..Len(p.nodes) |-> EncNode(p.nodes[k])])

\* one LZ4 sequence of literals only
Lz4Literals(raw) == <<240, Len(raw) - 15>> \o raw

Archive(p) ==
    LET raw == BlocksInfoRaw(p)
        info == IF BitAnd(p.flags, 63) \in {2, 3} THEN Lz4Literals(raw) ELSE raw
        data == Concat([k \in 1..Len(p.blocks) |-> p.blocks[k].data])
    IN  p.signature \o <<0>> \o U32(p.version)
            \o p.unity_version \o <<0>> \o UnityRevision \o <<0>>
            \o I64(Len(data)) \o U32(Len(info) + p.cbis_delta)
            \o U32(Len(raw) + p.ubis_delta) \o U32(p.flags)
            \o (IF BitAnd(p.flags, 128) # 0 THEN data \o info ELSE info \o data)

Params(blocks, nodes, flags) ==
    [signature |-> Signature, version |-> 6, unity_version |-> UnityVersion,
     flags |-> flags, blocks |-> blocks, nodes |-> nodes,
     nblocks |-> Len(blocks), nnodes |-> Len(nodes),
     cbis_delta |-> 0, ubis_delta |-> 0]

\* archives whose counts and length fields agree with the bytes laid out (the
\* nodes may still ask for more than the payload holds)
Consistent ==
    { Archive(Params(bs, ns, fl)) :
        bs \in SeqsUpTo(BlockKinds, MaxBlocks),
        ns \in SeqsUpTo(NodeKinds, MaxNodes),
        fl \in DescriptorFlags }

Sample(fl) == Params(<<[u |-> 2, c |-> 2, f |-> 0, data |-> <<11, 12>>]>>,
                     <<[offset |-> 0, size |-> 2, flags |-> 4, path |-> <<97>>]>>, fl)

Prefixes(b) == {SubSeq(b, 1, k) : k \in 0..Len(b)}

\* one field of an archive changed, or the archive cut short
Damaged ==
    UNION { Prefixes(Archive(Sample(fl))) : fl \in {0, 128} }
    \cup { Archive([Sample(fl) EXCEPT !.version = v]) : fl \in {0, 128}, v \in {7, 8} }
    \cup { Archive([Sample(fl) EXCEPT !.cbis_delta = d]) :
             fl \in DescriptorFlags, d \in {-1, 1, 30, 200} }
    \cup { Archive([Sample(fl) EXCEPT !.ubis_delta = d]) : fl \in {67, 195}, d \in {-1, 1} }
    \cup { Archive([Sample(fl) EXCEPT !.nblocks = n]) : fl \in {0, 128}, n \in {-1, 0, 2} }
    \cup { Archive([Sample(fl) EXCEPT !.nnodes = n]) : fl \in {0, 128}, n \in {-1, 0, 2} }
    \cup { Archive([Sample(fl) EXCEPT !.flags = f]) : fl \in {0}, f \in {1, 129, 5, 64} }
    \cup { Archive(Params(<<b, LzmaBlock>>, Sample(0).nodes, 0)) : b \in BlockKinds }
    \cup { Archive(Params(bs, ns, fl)) :
             bs \in {<<b>> : b \in BadBlockKinds}
                     \cup {<<b, r>> : b \in BadBlockKinds, r \in BlockKinds},
             ns \in SeqsUpTo(NodeKinds, 1),
             fl \in DescriptorFlags }
    \cup { Archive(Params(bs, ns \o <<NegativeSizeNode>>, fl)) :
             bs \in SeqsUpTo(BlockKinds, 1),
             ns \in SeqsUpTo(NodeKinds, 1),
             fl \in {0, 128} }
    \cup { Archive([Sample(0) EXCEPT !.nodes = <<BadPathNode>>]),
           Archive([Sample(0) EXCEPT !.unity_version = <<255>>]),
           Archive([Sample(0) EXCEPT !.signature = <<>>]),
           Archive([Sample(0) EXCEPT !.signature = <<85, 49>>]) }

Inputs == Consistent \cup Damaged

----------------------------------------------------------------------------
(* read_unity_asset_bundle, one stage or loop iteration per action *)

NoResult == [kind |-> "none", at |-> "", cause |-> "", bundle |-> None]

Ended(kind, at, cause) == [kind |-> kind, at |-> at, cause |-> cause, bundle |-> None]

Init ==
    /\ buf \in Inputs
    /\ lz4_exact \in BOOLEAN
    /\ pc = "header"
    /\ input = buf
    /\ header = None
    /\ container_header = None
    /\ compressed_blocks_info = None
    /\ block_info = None
    /\ storage_blocks = <<>>
    /\ directory_info = <<>>
    /\ block_spans = <<>>
    /\ decompresseds = <<>>
    /\ dec = <<>>
    /\ sf_input = <<>>
    /\ stream_files = <<>>
    /\ result = NoResult

ReadHeader ==
    /\ pc = "header"
    /\ LET r == read_unity_asset_bundle_header(input) IN
       IF r.res = "Ok"
       THEN /\ header' = r.val
            /\ input' = r.rest
            /\ pc' = "container"
            /\ UNCHANGED result
       ELSE /\ result' = Ended(r.res, "read_unity_asset_bundle_header", r.cause)
            /\ pc' = "done"
            /\ UNCHANGED <<header, input>>
    /\ UNCHANGED <<buf, lz4_exact, container_header, compressed_blocks_info,
                   block_info, storage_blocks, directory_info, block_spans, decompresseds,
                   dec, sf_input, stream_files>>

ReadContainerHeader ==
    /\ pc = "container"
    /\ LET r == read_unity_container_header(input) IN
       IF r.res = "Ok"
       THEN /\ container_header' = r.val
            /\ input' = r.rest
            /\ pc' = "blocks_info"
            /\ UNCHANGED result
       ELSE /\ result' = Ended(r.res, "read_unity_container_header", r.cause)
            /\ pc' = "done"
            /\ UNCHANGED <<container_header, input>>
    /\ UNCHANGED <<buf, lz4_exact, header, compressed_blocks_info,
                   block_info, storage_blocks, directory_info, block_spans, decompresseds,
                   dec, sf_input, stream_files>>

ReadBlocksInfoAndDirectory ==
    /\ pc = "blocks_info"
    /\ LET r == read_blocks_info_and_directory(input, header, container_header,
                                               lz4_exact) IN
       /\ compressed_blocks_info' = IF "span" \in DOMAIN r THEN r.span ELSE None
       /\ block_info' = IF "block_info" \in DOMAIN r THEN r.block_info ELSE None
       /\ IF r.res = "Ok"
          THEN /\ input' = r.rest
               /\ storage_blocks' = r.storage_blocks
               /\ directory_info' = r.nodes
               /\ pc' = "storage_blocks"
               /\ UNCHANGED result
          ELSE /\ result' = Ended(r.res, "read_blocks_info_and_directory", r.cause)
               /\ pc' = "done"
               /\ UNCHANGED <<input, storage_blocks, directory_info>>
    /\ UNCHANGED <<buf, lz4_exact, header, container_header, block_spans,
                   decompresseds, dec, sf_input, stream_files>>

DecompressBlock ==
    /\ pc = "storage_blocks"
    /\ Len(decompresseds) < Len(storage_blocks)
    /\ LET sb == storage_blocks[Len(decompresseds) + 1]
           r == decompress_block(input, sb, lz4_exact)
       IN
       IF r.res = "Ok"
       THEN /\ input' = r.rest
            /\ decompresseds' = Append(decompresseds, r.val)
            /\ block_spans' = Append(block_spans, r.span)
            /\ UNCHANGED <<pc, result>>
       ELSE /\ result' = Ended(r.res, "decompress_by_storage_blocks", r.cause)
            /\ pc' = "done"
            /\ UNCHANGED <<input, decompresseds, block_spans>>
    /\ UNCHANGED <<buf, lz4_exact, header, container_header,
                   compressed_blocks_info, block_info, storage_blocks, directory_info,
                   dec, sf_input, stream_files>>

ConcatBlocks ==
    /\ pc = "storage_blocks"
    /\ Len(decompresseds) = Len(storage_blocks)
    /\ dec' = Concat(decompresseds)
    /\ sf_input' = dec'
    /\ pc' = "stream_files"
    /\ UNCHANGED <<buf, lz4_exact, input, header, container_header,
                   compressed_blocks_info, block_info, storage_blocks, directory_info,
                   block_spans, decompresseds, stream_files, result>>

ReadStreamFile ==
    /\ pc = "stream_files"
    /\ Len(stream_files) < Len(directory_info)
    /\ LET di == directory_info[Len(stream_files) + 1]
           r == read_stream_file(sf_input, di)
       IN
       IF r.res = "Ok"
       THEN /\ sf_input' = r.rest
            /\ stream_files' = Append(stream_files, r.val)
            /\ UNCHANGED <<pc, result>>
       ELSE /\ result' = Ended("panic", "read_files", "unwrap_stream_files")
            /\ pc' = "done"
            /\ UNCHANGED <<sf_input, stream_files>>
    /\ UNCHANGED <<buf, lz4_exact, input, header, container_header,
                   compressed_blocks_info, block_info, storage_blocks, directory_info,
                   block_spans, decompresseds, dec>>

Return ==
    /\ pc = "stream_files"
    /\ Len(stream_files) = Len(directory_info)
    /\ result' = [kind |-> "Ok", at |-> "read_unity_asset_bundle", cause |-> "",
                  bundle |-> [header |-> header,
                              container_header |-> container_header,
                              storage_blocks |-> storage_blocks,
                              directory_info |-> directory_info,
                              stream_files |-> stream_files]]
    /\ pc' = "done"
    /\ UNCHANGED <<buf, lz4_exact, input, header, container_header,
                   compressed_blocks_info, block_info, storage_blocks, directory_info,
                   block_spans, decompresseds, dec, sf_input, stream_files>>

Next ==
    \/ ReadHeader
    \/ ReadContainerHeader
    \/ ReadBlocksInfoAndDirectory
    \/ DecompressBlock
    \/ ConcatBlocks
    \/ ReadStreamFile
    \/ Return

Spec == Init /\ [][Next]_vars

----------------------------------------------------------------------------
(* What the properties below speak of *)

\* offset in buf of the first byte after the descriptor: the signature and the
\* two strings with their NULs, the version (4 bytes), the descriptor (20)
DescriptorEnd ==
    Len(header.signature) + Len(header.unity_version)
        + Len(header.unity_revision) + 7 + 20

Bit(flags, mask) == (flags \div mask) % 2 = 1

Selector(flags) == flags % 64

\* decompress_by_storage_blocks has returned Ok
PayloadBuilt ==
    \/ pc = "stream_files"
    \/ pc = "done" /\ result.at \in {"read_files", "read_unity_asset_bundle"}

RECURSIVE SumUncompressed(_)
SumUncompressed(blocks) ==
    IF blocks = <<>> THEN 0
    ELSE blocks[1].uncompressed_size + SumUncompressed(Tail(blocks))

\* the sum of the sizes of the nodes before the k-th
RECURSIVE SizesBefore(_, _)
SizesBefore(nodes, k) ==
    IF k <= 1 THEN 0 ELSE SizesBefore(nodes, k - 1) + nodes[k - 1].size

Region(span) == SubSeq(buf, span.start + 1, span.start + span.len)

Disjoint(a, b) ==
    a.len = 0 \/ b.len = 0 \/ a.start + a.len <= b.start \/ b.start + b.len <= a.start

----------------------------------------------------------------------------
(* The properties *)

\* C1: every call ends with a complete Bundle (header, descriptor, storage
\* blocks, directory nodes, extracted files) or with an error value returned
\* to the caller and no Bundle; it never ends abnormally.
C1_AllOrNothing ==
    pc = "done" =>
        \/ /\ result.kind = "Ok"
           /\ header # None /\ container_header # None
           /\ Len(stream_files) = Len(directory_info)
           /\ result.bundle = [header |-> header,
                               container_header |-> container_header,
                               storage_blocks |-> storage_blocks,
                               directory_info |-> directory_info,
                               stream_files |-> stream_files]
        \/ /\ result.kind = "Err"
           /\ result.bundle = None

\* C2: when decompress_by_storage_blocks succeeds, the flat payload is as long
\* as the sum of the uncompressedSize fields of the blocks, whatever their
\* codec selectors.
C2_PayloadLength ==
    PayloadBuilt => Len(dec) = SumUncompressed(storage_blocks)

\* C3: the files are cut from the flat payload in node order from a cursor
\* starting at 0: there is never a file without its node, on success there is
\* one file per node, the k-th body is the size_k bytes that start at the sum of
\* the sizes of the nodes before it, path and fileName are the node's path,
\* and the node's offset plays no part.
C3_DirectoryReconstruction ==
    PayloadBuilt =>
        /\ Len(stream_files) <= Len(directory_info)
        /\ (result.kind = "Ok" => Len(stream_files) = Len(directory_info))
        /\ \A k \in 1..Len(stream_files) :
              /\ directory_info[k].size >= 0
              /\ SizesBefore(directory_info, k) + directory_info[k].size <= Len(dec)
              /\ stream_files[k].body =
                    SubSeq(dec, SizesBefore(directory_info, k) + 1,
                           SizesBefore(directory_info, k) + directory_info[k].size)
              /\ stream_files[k].path = directory_info[k].path
              /\ stream_files[k].file_name = directory_info[k].path

\* C3 witness: a parse that succeeded with two files, both with bytes, the
\* second node's offset being another position than the one its bytes start at
C3_Witness ==
    /\ result.kind = "Ok"
    /\ Len(stream_files) = 2
    /\ stream_files[1].body # <<>>
    /\ stream_files[2].body # <<>>
    /\ directory_info[2].offset # directory_info[1].size

\* C4: the compressed blocks-info is the last compressedBlocksInfoSize bytes of
\* the buffer when flag bit 0x80 is set and the compressedBlocksInfoSize bytes
\* after the descriptor otherwise, passed through or decoded as flags & 0x3F
\* says into at most uncompressedBlocksInfoSize bytes; and a
\* compressedBlocksInfoSize larger than what remains after the descriptor
\* makes the parse fail with an error.
C4_BlocksInfoLocation ==
    /\ compressed_blocks_info # None =>
          /\ compressed_blocks_info.len = container_header.compressed_blocks_info_size
          /\ compressed_blocks_info.start =
                IF Bit(container_header.flags, 128)
                THEN Len(buf) - container_header.compressed_blocks_info_size
                ELSE DescriptorEnd
          /\ block_info # None =>
                IF Selector(container_header.flags) \in {2, 3}
                THEN Len(block_info) <= container_header.uncompressed_blocks_info_size
                ELSE block_info = Region(compressed_blocks_info)
    /\ ( /\ pc = "done"
         /\ result.at = "read_blocks_info_and_directory"
         /\ header.version < 7
         /\ container_header.compressed_blocks_info_size > Len(buf) - DescriptorEnd )
          => result.kind = "Err"

\* a node asks for more bytes than remain in the flat payload at its turn
NodeOverrun ==
    /\ pc = "done"
    /\ PayloadBuilt
    /\ Len(stream_files) < Len(directory_info)
    /\ \/ directory_info[Len(stream_files) + 1].size < 0
       \/ directory_info[Len(stream_files) + 1].size > Len(sf_input)

\* C5: when a node asks for more bytes than remain in the flat payload (a
\* negative size included), the call returns an error and no Bundle.
C5_TruncatedPayload ==
    NodeOverrun => result.kind = "Err" /\ result.bundle = None

\* C6: when the decompressed blocks-info is too short for its hash, its
\* declared storage blocks or its declared nodes (negative counts included),
\* the call returns an error and no Bundle.
C6_TruncatedBlocksInfo ==
    ( /\ pc = "done"
      /\ result.at = "read_blocks_info_and_directory"
      /\ block_info # None
      /\ read_block_infos(block_info).res = "Err" )
        => result.kind = "Err" /\ result.bundle = None

\* C7: a buffer whose header parses with formatVersion >= 7 ends with an
\* error returned to the caller: no Bundle, no abnormal end.
C7_UnsupportedFormatVersion ==
    (pc = "done" /\ header # None /\ header.version >= 7)
        => result.kind = "Err" /\ result.bundle = None

\* decompress was called with selector 1, for the blocks-info or for the
\* storage block at hand, and the call ended there
LzmaReached ==
    /\ pc = "done"
    /\ \/ /\ result.at = "read_blocks_info_and_directory"
          /\ header.version < 7
          /\ compressed_blocks_info # None
          /\ Selector(container_header.flags) = 1
       \/ /\ result.at = "decompress_by_storage_blocks"
          /\ Selector(storage_blocks[Len(decompresseds) + 1].flags) = 1
          /\ storage_blocks[Len(decompresseds) + 1].compressed_size <= Len(input)

\* C8: with codec selector 1 (LZMA) the call does not crash: lacking a decoder,
\* it returns an error.
C8_LzmaNeverCrashes ==
    LzmaReached => result.kind = "Err"

\* C9 as first stated: with descriptor flags 67 the info-at-end bit is set and
\* the selector is 3, so the blocks-info is the tail of the buffer.
C9_Flags67AtEnd ==
    (compressed_blocks_info # None /\ container_header.flags = 67) =>
        /\ Bit(container_header.flags, 128)
        /\ Selector(container_header.flags) = 3
        /\ compressed_blocks_info.start = Len(buf) - compressed_blocks_info.len

\* C9: with descriptor flags 67 the info-at-end bit (0x80) is clear and the
\* selector is 3, so the blocks-info is the compressedBlocksInfoSize bytes that
\* follow the descriptor, and what is parsed is their LZ4 decoding.
C9_Flags67Inline ==
    (compressed_blocks_info # None /\ container_header.flags = 67) =>
        /\ ~Bit(container_header.flags, 128)
        /\ Selector(container_header.flags) = 3
        /\ compressed_blocks_info.start = DescriptorEnd
        /\ compressed_blocks_info.len = container_header.compressed_blocks_info_size
        /\ block_info # None =>
              /\ block_info # Region(compressed_blocks_info)
              /\ Lz4Literals(block_info) = Region(compressed_blocks_info)

\* C9 witness: the end-to-end bundle (UnityFS, formatVersion 6, flags 67)
\* parsed to the end, with storage blocks lying after its blocks-info
C9_Witness ==
    /\ result.kind = "Ok"
    /\ header.signature = Signature
    /\ header.version = 6
    /\ container_header.flags = 67
    /\ storage_blocks # <<>>
    /\ Len(stream_files) = 2

\* C10: the k-th storage block takes exactly its compressedSize bytes where
\* the block before it ended, the first one right after the blocks-info
\* region (after the descriptor when the region is the tail of the buffer);
\* the outputs are concatenated in that order; and no byte taken for a
\* storage block is a byte of the blocks-info region.
C10_StorageBlockCursor ==
    (compressed_blocks_info # None /\ pc # "blocks_info") =>
        /\ Len(decompresseds) = Len(block_spans)
        /\ \A k \in 1..Len(block_spans) :
              /\ block_spans[k].len = storage_blocks[k].compressed_size
              /\ block_spans[k].start =
                    IF k > 1
                    THEN block_spans[k - 1].start + block_spans[k - 1].len
                    ELSE IF Bit(container_header.flags, 128)
                    THEN DescriptorEnd
                    ELSE compressed_blocks_info.start + compressed_blocks_info.len
              /\ Disjoint(block_spans[k], compressed_blocks_info)
        /\ PayloadBuilt => dec = Concat(decompresseds)

====
